---- MODULE Spec2Model ----
(***************************************************************************)
(* eventBooker: the storage layer (package postgres) and the sweeper       *)
(* goroutine of main, as a state machine over the two tables of the        *)
(* schema.  The tables hold committed rows; a transaction of BookEvent or  *)
(* ConfirmBooking is modelled twice: as one atomic step (Spec) and         *)
(* statement by statement under PostgreSQL's default isolation level,      *)
(* READ COMMITTED, which is what sql.DB.Begin() without TxOptions gives    *)
(* (SpecTx).  SpecTrace runs the atomic calls from a one-event database    *)
(* and records them.  SpecHttp puts the HTTP handlers in front of the       *)
(* atomic calls and lets the store fail at any statement; SpecList is the *)
(* listing of events by date over the atomic calls; SpecRead runs         *)
(* GetEventWithBookings query by query beside them; SpecTxLive and        *)
(* SpecSweeper add fairness to the transactions and to the sweeper for    *)
(* the liveness properties; SpecMain is                                   *)
(* main with its sweeper goroutine, stop channel and shutdown.  Time is    *)
(* counted in whole minutes.  last, pre, trace and resp are history        *)
(* variables: they record what calls returned and are read by no call.     *)
(* A SERIAL id is taken to be the next unused number.                      *)
(***************************************************************************)
EXTENDS Integers, Sequences, FiniteSets, TLC

\* ---------------------------------------------------------------- bounds
MaxTime == 2         \* the clock stops after this many minutes
MaxBookingId == 2    \* bookings.id values handed out before inserts stop
MaxTrace == 4        \* steps of a recorded scenario
MaxSignals == 1      \* SIGTERM/SIGINT deliveries to the process

Users == {"A", "B"}
EventIds == {1, 2}          \* the ids callers pass; at most these events exist
Seats == {1, 2}             \* the valid total_seats of created events
Deadlines == {1, 2}         \* the valid deadline_minutes of created events
Procs == {1, 2}             \* request goroutines with a transaction in flight

\* ---------------------------------------------------------------- results
\* The error texts of the storage layer (fmt.Errorf), and success.
OK == "ok"
ErrNoSeats == "no available seats"
ErrDuplicatePending == "user already has pending booking for this event"
ErrNoPending == "no pending booking found"
ErrSeatsInfo == "failed to get event seats info"
ErrCreateBooking == "failed to create booking"
ErrCreateEvent == "failed to create event"
ErrEventNotFound == "event not found"
\* The same texts wrapping a driver error instead of a query's own outcome.
ErrBeginTx == "failed to begin transaction: store failure"
ErrSeatsInfoStore == "failed to get event seats info: store failure"
ErrCheckExisting == "failed to check existing booking: store failure"
ErrCreateBookingStore == "failed to create booking: store failure"
ErrCheckBooking == "failed to check booking: store failure"
ErrConfirmBooking == "failed to confirm booking: store failure"
ErrCommit == "commit: store failure"
ErrGetEvent == "failed to get event: store failure"
ErrBookedSeats == "failed to get booked seats count: store failure"
ErrGetBookings == "failed to get bookings: store failure"
ErrCancelExpired == "failed to cancel expired bookings: store failure"

\* The statuses the handlers answer with.
StatusOK == 200
StatusBadRequest == 400
StatusNotFound == 404
StatusConflict == 409
StatusInternalServerError == 500

VARIABLES
    events,     \* table events: sequence of rows, the id is the index
    bookings,   \* table bookings: set of committed rows
    nextId,     \* the next value of bookings.id (SERIAL)
    now,        \* the database clock, minutes
    last,       \* the last call that returned: op, arguments, result
    pre,        \* table bookings as it was when that call began
    tx,         \* per request goroutine: the transaction it has in flight
    trace,      \* scenario specification only: the calls so far, in order
    resp,       \* the last HTTP exchange: request, storage error, response
    rt          \* main: its goroutines, the stop channel, the ticker

vars == <<events, bookings, nextId, now, last, pre, tx, trace, resp, rt>>

NoCall == [op |-> "none", ev |-> 0, user |-> "", res |-> "", after |-> ""]

\* No request has been answered yet.
NoEvent == [id |-> 0, total_seats |-> 0, deadline_minutes |-> 0, booked_seats |-> 0]
NoResponse ==
    [handler |-> "none", ev |-> 0, user |-> "", total_seats |-> 0, deadline |-> 0,
     fault |-> "none", err |-> "", status |-> 0, error |-> "",
     event |-> NoEvent, bookings |-> {}, again |-> FALSE, events |-> <<>>, malformed |-> FALSE]

\* main has reached line 101: the sweeper goroutine waits in its select, the
\* server listens, the stop channel and ticker.C are empty, the store is open.
Booted ==
    [sweeper |-> "select", mainpc |-> "wait", server |-> "serving", stop |-> 0,
     tick |-> FALSE, closed |-> FALSE, swept |-> "none", signals |-> 0,
     signalled |-> FALSE]

\* The record of a call that returns now.  after names the call returned
\* directly before it when that one succeeded with the same event and user;
\* a sweep counts as such when it deleted a booking of that event and user.
Call(op, e, u, res) ==
    [op |-> op, ev |-> e, user |-> u, res |-> res,
     after |-> IF last.res = OK /\ last.ev = e /\ last.user = u
                 THEN last.op
               ELSE IF /\ last.op = "sweep" /\ last.res = OK
                       /\ \E b \in pre \ bookings :
                              b.event_id = e /\ b.user_id = u
                 THEN "sweep"
               ELSE ""]

\* ---------------------------------------------------------------- queries
EventExists(e) == e \in 1..Len(events)

\* COUNT(b.id) of the LEFT JOIN on b.confirmed = true, over the rows bk.
ConfirmedCount(bk, e) == Cardinality({b \in bk : b.event_id = e /\ b.confirmed})

\* The rows with event_id = e, user_id = u and confirmed = false.
PendingRows(bk, e, u) ==
    {b \in bk : b.event_id = e /\ b.user_id = u /\ ~b.confirmed}

\* Variant of the duplicate test that takes confirmed bookings too.
ExistingBookingAnyStatus(bk, e, u) ==
    {b \in bk : b.event_id = e /\ b.user_id = u} # {}

\* SELECT EXISTS(... confirmed = false)
ExistingBooking(bk, e, u) == PendingRows(bk, e, u) # {}

\* Variants of the capacity test with the comparison off by one.
NoSeatsLate(bk, e) == ConfirmedCount(bk, e) > events[e].total_seats
NoSeatsEarly(bk, e) == ConfirmedCount(bk, e) + 1 >= events[e].total_seats

\* Variant of the capacity test whose count takes the pending bookings too.
NoSeatsCountsPending(bk, e) ==
    Cardinality({b \in bk : b.event_id = e}) >= events[e].total_seats

\* bookedSeats >= totalSeats
NoSeats(bk, e) == ConfirmedCount(bk, e) >= events[e].total_seats

\* Variant of the INSERT that stamps the row with the epoch, not NOW().
NewBookingAtZero(id, e, u, t) ==
    [id |-> id, event_id |-> e, user_id |-> u, created_at |-> 0, confirmed |-> FALSE]

\* Variant of the INSERT with confirmed = true.
NewBookingConfirmed(id, e, u, t) ==
    [id |-> id, event_id |-> e, user_id |-> u, created_at |-> t, confirmed |-> TRUE]

\* INSERT INTO bookings (...) VALUES ($1, $2, NOW(), false)
NewBooking(id, e, u, t) ==
    [id |-> id, event_id |-> e, user_id |-> u, created_at |-> t, confirmed |-> FALSE]

\* Variant of the UPDATE that also refreshes created_at.
UpdateConfirmedAndStamp(bk, id) ==
    {IF b.id = id THEN [b EXCEPT !.confirmed = TRUE, !.created_at = now] ELSE b
       : b \in bk}

\* UPDATE bookings SET confirmed = true WHERE id = $1
UpdateConfirmed(bk, id) ==
    {IF b.id = id THEN [b EXCEPT !.confirmed = TRUE] ELSE b : b \in bk}

\* The store failures a read can meet: none, or the query that fails.
ReadFaults == {"none", "event", "count", "bookings"}

\* Variant of GetEvent that holds a failed query for a missing event.
GetEventFailureIsNotFound(bk, id, fault) ==
    IF fault = "event" \/ ~EventExists(id)
      THEN [event |-> NoEvent, err |-> ErrEventNotFound]
    ELSE IF fault = "count" THEN [event |-> NoEvent, err |-> ErrBookedSeats]
    ELSE [event |-> [id |-> id,
                     total_seats |-> events[id].total_seats,
                     deadline_minutes |-> events[id].deadline_minutes,
                     booked_seats |-> ConfirmedCount(bk, id)],
          err |-> OK]

\* Storage.GetEvent on the rows bk: the event with its confirmed count, or
\* the error.  sql.ErrNoRows becomes "event not found"; any other failure of
\* the first query, or of the count, is wrapped.
GetEvent(bk, id, fault) ==
    IF fault = "event" THEN [event |-> NoEvent, err |-> ErrGetEvent]
    ELSE IF ~EventExists(id) THEN [event |-> NoEvent, err |-> ErrEventNotFound]
    ELSE IF fault = "count" THEN [event |-> NoEvent, err |-> ErrBookedSeats]
    ELSE [event |-> [id |-> id,
                     total_seats |-> events[id].total_seats,
                     deadline_minutes |-> events[id].deadline_minutes,
                     booked_seats |-> ConfirmedCount(bk, id)],
          err |-> OK]

\* Storage.GetEventWithBookings: GetEvent, then every booking of the event,
\* pending and confirmed.  On an error it returns nil, nil, err.
GetEventWithBookings(bk, eventID, fault) ==
    LET got == GetEvent(bk, eventID, fault) IN
    IF got.err # OK THEN [event |-> NoEvent, bookings |-> {}, err |-> got.err]
    ELSE IF fault = "bookings"
      THEN [event |-> NoEvent, bookings |-> {}, err |-> ErrGetBookings]
    ELSE [event |-> got.event,
          bookings |-> {b \in bk : b.event_id = eventID},
          err |-> OK]

\* Variants of the sweep's predicate: one minute late, whatever the flag,
\* and against the first event's deadline.
ExpiredLate(b, t) ==
    /\ ~b.confirmed
    /\ b.created_at < t - events[b.event_id].deadline_minutes - 1
ExpiredAnyStatus(b, t) ==
    b.created_at < t - events[b.event_id].deadline_minutes
ExpiredGlobalDeadline(b, t) ==
    /\ ~b.confirmed
    /\ b.created_at < t - events[1].deadline_minutes

\* Variant with <= for <: a row exactly as old as the deadline goes too.
ExpiredAtDeadline(b, t) ==
    /\ ~b.confirmed
    /\ b.created_at <= t - events[b.event_id].deadline_minutes

\* The predicate of the sweep's DELETE for one row at time t.
Expired(b, t) ==
    /\ ~b.confirmed
    /\ b.created_at < t - events[b.event_id].deadline_minutes

\* ---------------------------------------------------------------- atomic operations
Idle ==
    [pc |-> "idle", ev |-> 0, user |-> "", bookingID |-> 0, txnow |-> 0, res |-> ""]

Init ==
    /\ events = <<>>
    /\ bookings = {}
    /\ nextId = 1
    /\ now = 0
    /\ last = NoCall
    /\ pre = {}
    /\ tx = [p \in Procs |-> Idle]
    /\ trace = <<>>
    /\ resp = NoResponse
    /\ rt = Booted

\* Storage.CreateEvent: one INSERT; the CHECK constraints reject a row with
\* total_seats <= 0 or deadline_minutes <= 0.
CreateEvent(totalSeats, deadline) ==
    /\ Len(events) < Cardinality(EventIds)
    /\ IF totalSeats > 0 /\ deadline > 0
         THEN /\ events' = Append(events,
                     [total_seats |-> totalSeats, deadline_minutes |-> deadline])
              /\ last' = Call("create", Len(events) + 1, "", OK)
         ELSE /\ events' = events
              /\ last' = Call("create", 0, "", ErrCreateEvent)
    /\ pre' = bookings
    /\ UNCHANGED <<bookings, nextId, now>>

\* Variant of the index that rejects nothing.
NoUniqueIndex(bk, e, u) == FALSE

\* The partial unique index idx_unique_pending_booking_per_user: an INSERT of
\* a pending row for (e, u) fails when a committed pending row for (e, u) exists.
UniqueViolation(bk, e, u) == ExistingBooking(bk, e, u)

\* Variants of BookEvent: the duplicate test before the capacity test, and
\* no duplicate test.
BookResultDuplicateFirst(bk, e, u) ==
    IF ~EventExists(e) THEN ErrSeatsInfo
    ELSE IF ExistingBooking(bk, e, u) THEN ErrDuplicatePending
    ELSE IF NoSeats(bk, e) THEN ErrNoSeats
    ELSE OK
BookResultNoDuplicateTest(bk, e, u) ==
    IF ~EventExists(e) THEN ErrSeatsInfo
    ELSE IF NoSeats(bk, e) THEN ErrNoSeats
    ELSE IF UniqueViolation(bk, e, u) THEN ErrCreateBooking
    ELSE OK

\* The result of Storage.BookEvent on the rows bk, run without interruption.
BookResult(bk, e, u) ==
    IF ~EventExists(e) THEN ErrSeatsInfo
    ELSE IF NoSeats(bk, e) THEN ErrNoSeats
    ELSE IF ExistingBooking(bk, e, u) THEN ErrDuplicatePending
    ELSE IF UniqueViolation(bk, e, u) THEN ErrCreateBooking
    ELSE OK

BookEvent(e, u) ==
    LET res == BookResult(bookings, e, u) IN
    /\ res = OK => nextId <= MaxBookingId
    /\ IF res = OK
         THEN /\ bookings' = bookings \cup {NewBooking(nextId, e, u, now)}
              /\ nextId' = nextId + 1
         ELSE UNCHANGED <<bookings, nextId>>
    /\ last' = Call("book", e, u, res)
    /\ pre' = bookings
    /\ UNCHANGED <<events, now>>

\* Variants of ConfirmBooking: the capacity test before the lookup, and no
\* capacity test.
ConfirmResultCountFirst(bk, e, u) ==
    IF ~EventExists(e) THEN ErrSeatsInfo
    ELSE IF NoSeats(bk, e) THEN ErrNoSeats
    ELSE IF ~ExistingBooking(bk, e, u) THEN ErrNoPending
    ELSE OK
ConfirmResultNoCapacityTest(bk, e, u) ==
    IF ~ExistingBooking(bk, e, u) THEN ErrNoPending
    ELSE IF ~EventExists(e) THEN ErrSeatsInfo
    ELSE OK

\* The result of Storage.ConfirmBooking on the rows bk, run without interruption.
ConfirmResult(bk, e, u) ==
    IF ~ExistingBooking(bk, e, u) THEN ErrNoPending
    ELSE IF ~EventExists(e) THEN ErrSeatsInfo
    ELSE IF NoSeats(bk, e) THEN ErrNoSeats
    ELSE OK

ConfirmBooking(e, u) ==
    LET res == ConfirmResult(bookings, e, u) IN
    /\ IF res = OK
         THEN \E b \in PendingRows(bookings, e, u) :
                  bookings' = UpdateConfirmed(bookings, b.id)
         ELSE bookings' = bookings
    /\ last' = Call("confirm", e, u, res)
    /\ pre' = bookings
    /\ UNCHANGED <<events, nextId, now>>

\* The rows the sweep's DELETE leaves of bk at time t.
Unexpired(bk, t) == {b \in bk : ~Expired(b, t)}

\* Storage.CancelExpiredBookings: one DELETE statement.
CancelExpiredBookings ==
    /\ bookings' = Unexpired(bookings, now)
    /\ last' = Call("sweep", 0, "", OK)
    /\ pre' = bookings
    /\ UNCHANGED <<events, nextId, now>>

\* A minute passes on the database clock.
Tick ==
    /\ now < MaxTime
    /\ now' = now + 1
    /\ UNCHANGED <<events, bookings, nextId, last, pre>>

\* The arguments createEvent is called with, invalid ones included.
SeatInputs == {0} \cup Seats
DeadlineInputs == {0} \cup Deadlines

\* Every call runs to its end before the next one begins.
Next ==
    \/ \E s \in SeatInputs, d \in DeadlineInputs :
           CreateEvent(s, d) /\ UNCHANGED <<tx, trace, resp, rt>>
    \/ \E e \in EventIds, u \in Users :
           BookEvent(e, u) /\ UNCHANGED <<tx, trace, resp, rt>>
    \/ \E e \in EventIds, u \in Users :
           ConfirmBooking(e, u) /\ UNCHANGED <<tx, trace, resp, rt>>
    \/ CancelExpiredBookings /\ UNCHANGED <<tx, trace, resp, rt>>
    \/ Tick /\ UNCHANGED <<tx, trace, resp, rt>>

Spec == Init /\ [][Next]_vars

\* ---------------------------------------------------------------- scenarios
\* The database the server starts on: one event, created earlier, no bookings.
InitOneEvent ==
    /\ \E s \in Seats, d \in Deadlines :
           events = <<[total_seats |-> s, deadline_minutes |-> d]>>
    /\ bookings = {}
    /\ nextId = 1
    /\ now = 0
    /\ last = NoCall
    /\ pre = {}
    /\ tx = [p \in Procs |-> Idle]
    /\ trace = <<>>
    /\ resp = NoResponse
    /\ rt = Booted

\* A scenario is MaxTrace steps long, calls and minutes together.
TraceOpen == Len(trace) + now < MaxTrace

\* The same calls, each run to its end, with every call, the table it left
\* and the minute it ran in written to trace.
Traced(A) ==
    /\ TraceOpen
    /\ A
    /\ trace' = Append(trace, [call |-> last', bk |-> bookings', at |-> now])
    /\ tx' = tx
    /\ UNCHANGED <<resp, rt>>

NextTrace ==
    \/ \E e \in EventIds, u \in Users : Traced(BookEvent(e, u))
    \/ \E e \in EventIds, u \in Users : Traced(ConfirmBooking(e, u))
    \/ Traced(CancelExpiredBookings)
    \/ TraceOpen /\ Tick /\ UNCHANGED <<tx, trace, resp, rt>>

SpecTrace == InitOneEvent /\ [][NextTrace]_vars

\* ---------------------------------------------------------------- transactions
\* BookEvent and ConfirmBooking statement by statement.  Under READ COMMITTED
\* every statement reads the rows committed when it starts; a transaction's
\* own INSERT or UPDATE stays invisible to the others until Commit, and
\* NOW() is the time the transaction began.

\* Variant with the wait taken too early: an INSERT waits for any BookEvent
\* transaction in flight for the same (e, u), inserted or not.
InsertWaitsOnAnyBook(p) ==
    \E q \in Procs \ {p} :
        /\ tx[q].pc \in {"book_count", "book_check", "book_insert", "book_commit"}
        /\ tx[q].ev = tx[p].ev
        /\ tx[q].user = tx[p].user

\* Variant without the wait: an INSERT goes ahead beside an uncommitted
\* pending row for the same (e, u).
InsertNeverWaits(p) == FALSE

\* The same index makes an INSERT wait while another transaction holds an
\* uncommitted pending row for the same (e, u).
InsertWaits(p) ==
    \E q \in Procs \ {p} :
        /\ tx[q].pc = "book_commit"
        /\ tx[q].ev = tx[p].ev
        /\ tx[q].user = tx[p].user

\* The row lock of an uncommitted UPDATE: a second writer of the row waits.
RowLocked(p, id) ==
    \E q \in Procs \ {p} : tx[q].pc = "confirm_commit" /\ tx[q].bookingID = id

\* A call returns res to its handler: the deferred Rollback drops what was
\* not committed.
Return(p, pc, res) ==
    tx' = [tx EXCEPT ![p] = [Idle EXCEPT !.pc = pc, !.ev = tx[p].ev,
                                         !.user = tx[p].user, !.res = res]]

\* s.DB.Begin() of BookEvent.
BookBegin(p, e, u) ==
    /\ tx[p].pc = "idle"
    /\ EventExists(e)
    /\ tx' = [tx EXCEPT ![p] = [Idle EXCEPT !.pc = "book_count", !.ev = e,
                                            !.user = u, !.txnow = now]]
    /\ UNCHANGED <<events, bookings, nextId, now, last, pre, trace, resp, rt>>

\* countQuery and the capacity test of BookEvent.
BookCount(p) ==
    /\ tx[p].pc = "book_count"
    /\ IF ~EventExists(tx[p].ev) THEN Return(p, "book_done", ErrSeatsInfo)
       ELSE IF NoSeats(bookings, tx[p].ev) THEN Return(p, "book_done", ErrNoSeats)
       ELSE tx' = [tx EXCEPT ![p].pc = "book_check"]
    /\ UNCHANGED <<events, bookings, nextId, now, last, pre, trace, resp, rt>>

\* checkQuery and the duplicate test of BookEvent.
BookCheck(p) ==
    /\ tx[p].pc = "book_check"
    /\ IF ExistingBooking(bookings, tx[p].ev, tx[p].user)
         THEN Return(p, "book_done", ErrDuplicatePending)
         ELSE tx' = [tx EXCEPT ![p].pc = "book_insert"]
    /\ UNCHANGED <<events, bookings, nextId, now, last, pre, trace, resp, rt>>

\* insertQuery of BookEvent.
BookInsert(p) ==
    /\ tx[p].pc = "book_insert"
    /\ ~InsertWaits(p)
    /\ IF UniqueViolation(bookings, tx[p].ev, tx[p].user)
         THEN /\ Return(p, "book_done", ErrCreateBooking)
              /\ nextId' = nextId
         ELSE /\ nextId <= MaxBookingId
              /\ tx' = [tx EXCEPT ![p].pc = "book_commit", ![p].bookingID = nextId]
              /\ nextId' = nextId + 1
    /\ UNCHANGED <<events, bookings, now, last, pre, trace, resp, rt>>

\* tx.Commit() of BookEvent.
BookCommit(p) ==
    /\ tx[p].pc = "book_commit"
    /\ bookings' = bookings \cup
           {NewBooking(tx[p].bookingID, tx[p].ev, tx[p].user, tx[p].txnow)}
    /\ Return(p, "book_done", OK)
    /\ UNCHANGED <<events, nextId, now, last, pre, trace, resp, rt>>

\* s.DB.Begin() of ConfirmBooking.
ConfirmBegin(p, e, u) ==
    /\ tx[p].pc = "idle"
    /\ EventExists(e)
    /\ tx' = [tx EXCEPT ![p] = [Idle EXCEPT !.pc = "confirm_lookup", !.ev = e,
                                            !.user = u]]
    /\ UNCHANGED <<events, bookings, nextId, now, last, pre, trace, resp, rt>>

\* checkQuery of ConfirmBooking: the id of the pending row, or sql.ErrNoRows.
ConfirmLookup(p) ==
    /\ tx[p].pc = "confirm_lookup"
    /\ IF ~ExistingBooking(bookings, tx[p].ev, tx[p].user)
         THEN Return(p, "confirm_done", ErrNoPending)
         ELSE /\ \E b \in PendingRows(bookings, tx[p].ev, tx[p].user) :
                     tx' = [tx EXCEPT ![p].pc = "confirm_count",
                                      ![p].bookingID = b.id]
    /\ UNCHANGED <<events, bookings, nextId, now, last, pre, trace, resp, rt>>

\* countQuery and the capacity test of ConfirmBooking.
ConfirmCount(p) ==
    /\ tx[p].pc = "confirm_count"
    /\ IF ~EventExists(tx[p].ev) THEN Return(p, "confirm_done", ErrSeatsInfo)
       ELSE IF NoSeats(bookings, tx[p].ev) THEN Return(p, "confirm_done", ErrNoSeats)
       ELSE tx' = [tx EXCEPT ![p].pc = "confirm_update"]
    /\ UNCHANGED <<events, bookings, nextId, now, last, pre, trace, resp, rt>>

\* updateQuery of ConfirmBooking.  A row that is gone matches nothing, and
\* Exec reports no error for an UPDATE of zero rows.
ConfirmUpdate(p) ==
    /\ tx[p].pc = "confirm_update"
    /\ ~RowLocked(p, tx[p].bookingID)
    /\ tx' = [tx EXCEPT ![p].pc = "confirm_commit"]
    /\ UNCHANGED <<events, bookings, nextId, now, last, pre, trace, resp, rt>>

\* tx.Commit() of ConfirmBooking.
ConfirmCommit(p) ==
    /\ tx[p].pc = "confirm_commit"
    /\ bookings' = UpdateConfirmed(bookings, tx[p].bookingID)
    /\ Return(p, "confirm_done", OK)
    /\ UNCHANGED <<events, nextId, now, last, pre, trace, resp, rt>>

\* CancelExpiredBookings beside transactions in flight: the DELETE waits for
\* the row lock of an uncommitted UPDATE of a row it is about to delete.
SweepTx ==
    /\ \A b \in bookings : Expired(b, now) => ~RowLocked(0, b.id)
    /\ bookings' = Unexpired(bookings, now)
    /\ UNCHANGED <<events, nextId, now, last, pre, tx, trace, resp, rt>>

\* The handler has written its response; the goroutine ends.
Respond(p) ==
    /\ tx[p].pc \in {"book_done", "confirm_done"}
    /\ tx' = [tx EXCEPT ![p] = Idle]
    /\ UNCHANGED <<events, bookings, nextId, now, last, pre, trace, resp, rt>>

\* Request goroutines run their transactions concurrently with each other
\* and with the sweeper.
NextTx ==
    \/ \E p \in Procs, e \in EventIds, u \in Users : BookBegin(p, e, u)
    \/ \E p \in Procs : BookCount(p)
    \/ \E p \in Procs : BookCheck(p)
    \/ \E p \in Procs : BookInsert(p)
    \/ \E p \in Procs : BookCommit(p)
    \/ \E p \in Procs, e \in EventIds, u \in Users : ConfirmBegin(p, e, u)
    \/ \E p \in Procs : ConfirmLookup(p)
    \/ \E p \in Procs : ConfirmCount(p)
    \/ \E p \in Procs : ConfirmUpdate(p)
    \/ \E p \in Procs : ConfirmCommit(p)
    \/ \E p \in Procs : Respond(p)
    \/ SweepTx
    \/ Tick /\ UNCHANGED <<tx, trace, resp, rt>>

SpecTx == InitOneEvent /\ [][NextTx]_vars

\* The statements of the transaction of goroutine p.
TxStep(p) ==
    \/ BookCount(p) \/ BookCheck(p) \/ BookInsert(p) \/ BookCommit(p)
    \/ ConfirmLookup(p) \/ ConfirmCount(p) \/ ConfirmUpdate(p) \/ ConfirmCommit(p)

\* A database some minutes old: one event, and no booking yet or the pending
\* booking holder A placed in minute 0, which by now may be past its deadline.
InitOneBooking ==
    /\ \E s \in Seats, d \in Deadlines :
           events = <<[total_seats |-> s, deadline_minutes |-> d]>>
    /\ \/ bookings = {} /\ nextId = 1
       \/ bookings = {NewBooking(1, 1, "A", 0)} /\ nextId = 2
    /\ now \in 0..MaxTime
    /\ last = NoCall
    /\ pre = {}
    /\ tx = [p \in Procs |-> Idle]
    /\ trace = <<>>
    /\ resp = NoResponse
    /\ rt = Booted

\* The transactions and the sweep within one minute.
NextTxLive ==
    \/ \E p \in Procs, e \in EventIds, u \in Users : BookBegin(p, e, u)
    \/ \E p \in Procs, e \in EventIds, u \in Users : ConfirmBegin(p, e, u)
    \/ \E p \in Procs : TxStep(p)
    \/ \E p \in Procs : Respond(p)
    \/ SweepTx

\* The scheduler and the database run every transaction that is not waiting
\* for a lock.  Requests and sweeps come when they come.
SpecTxLive ==
    /\ InitOneBooking
    /\ [][NextTxLive]_vars
    /\ \A p \in Procs : WF_vars(TxStep(p))

\* ---------------------------------------------------------------- handlers
\* The HTTP handlers, each with the storage call it makes.  A request has a
\* well-formed id and body; fault names the statement of the storage call at
\* which the store fails (connection lost, timeout), "none" if it does not.
\* Every storage call runs to its end before the next request.
BookFaults == {"none", "begin", "count", "check", "insert", "commit"}
ConfirmFaults == {"none", "begin", "lookup", "count", "update", "commit"}

\* The error of Storage.BookEvent on the rows bk when the store fails at
\* fault: the statements run in the order of the code, the first error returns.
BookFaultResult(bk, e, u, fault) ==
    IF fault = "begin" THEN ErrBeginTx
    ELSE IF fault = "count" THEN ErrSeatsInfoStore
    ELSE IF ~EventExists(e) THEN ErrSeatsInfo
    ELSE IF NoSeats(bk, e) THEN ErrNoSeats
    ELSE IF fault = "check" THEN ErrCheckExisting
    ELSE IF ExistingBooking(bk, e, u) THEN ErrDuplicatePending
    ELSE IF fault = "insert" THEN ErrCreateBookingStore
    ELSE IF UniqueViolation(bk, e, u) THEN ErrCreateBooking
    ELSE IF fault = "commit" THEN ErrCommit
    ELSE OK

\* Variant of a failing BookEvent without the deferred Rollback: when Commit
\* fails the inserted row stays.
BookEventFailsKeepsInsert(e, u, fault) ==
    LET res == BookFaultResult(bookings, e, u, fault) IN
    /\ fault # "none"
    /\ IF res = ErrCommit
         THEN /\ nextId <= MaxBookingId
              /\ bookings' = bookings \cup {NewBooking(nextId, e, u, now)}
              /\ nextId' = nextId + 1
         ELSE UNCHANGED <<bookings, nextId>>
    /\ last' = Call("book", e, u, res)
    /\ pre' = bookings
    /\ UNCHANGED <<events, now>>

\* Storage.BookEvent with a store failure in it: it returns the error and the
\* deferred tx.Rollback() drops whatever the transaction wrote.
BookEventFails(e, u, fault) ==
    /\ fault # "none"
    /\ last' = Call("book", e, u, BookFaultResult(bookings, e, u, fault))
    /\ pre' = bookings
    /\ UNCHANGED <<events, bookings, nextId, now>>

\* The same for Storage.ConfirmBooking.
ConfirmFaultResult(bk, e, u, fault) ==
    IF fault = "begin" THEN ErrBeginTx
    ELSE IF fault = "lookup" THEN ErrCheckBooking
    ELSE IF ~ExistingBooking(bk, e, u) THEN ErrNoPending
    ELSE IF fault = "count" THEN ErrSeatsInfoStore
    ELSE IF ~EventExists(e) THEN ErrSeatsInfo
    ELSE IF NoSeats(bk, e) THEN ErrNoSeats
    ELSE IF fault = "update" THEN ErrConfirmBooking
    ELSE IF fault = "commit" THEN ErrCommit
    ELSE OK

ConfirmBookingFails(e, u, fault) ==
    /\ fault # "none"
    /\ last' = Call("confirm", e, u, ConfirmFaultResult(bookings, e, u, fault))
    /\ pre' = bookings
    /\ UNCHANGED <<events, bookings, nextId, now>>

\* Variant of the switch without the case of the duplicate pending booking.
CreateBookingResponseNoDuplicateCase(err) ==
    IF err = OK THEN [status |-> StatusOK, error |-> ""]
    ELSE IF err = ErrNoSeats THEN [status |-> StatusConflict, error |-> ErrNoSeats]
    ELSE [status |-> StatusInternalServerError, error |-> "failed to book event"]

\* The switch of createBooking.New on err.Error().
CreateBookingResponse(err) ==
    IF err = OK THEN [status |-> StatusOK, error |-> ""]
    ELSE IF err = ErrNoSeats THEN [status |-> StatusConflict, error |-> ErrNoSeats]
    ELSE IF err = ErrDuplicatePending
      THEN [status |-> StatusConflict, error |-> ErrDuplicatePending]
    ELSE [status |-> StatusInternalServerError, error |-> "failed to book event"]

\* Variant of the switch without the case of the missing pending booking.
ConfirmBookingResponseNoPendingCase(err) ==
    IF err = OK THEN [status |-> StatusOK, error |-> ""]
    ELSE IF err = ErrNoSeats THEN [status |-> StatusConflict, error |-> ErrNoSeats]
    ELSE [status |-> StatusInternalServerError, error |-> "failed to confirm booking"]

\* The switch of confirmBooking.New on err.Error().
ConfirmBookingResponse(err) ==
    IF err = OK THEN [status |-> StatusOK, error |-> ""]
    ELSE IF err = ErrNoPending
      THEN [status |-> StatusNotFound,
            error |-> "no pending booking found for this user"]
    ELSE IF err = ErrNoSeats THEN [status |-> StatusConflict, error |-> ErrNoSeats]
    ELSE [status |-> StatusInternalServerError, error |-> "failed to confirm booking"]

\* The error branch of getEventInfo.New.
GetEventInfoResponse(err) ==
    IF err = OK THEN [status |-> StatusOK, error |-> ""]
    ELSE IF err = ErrEventNotFound
      THEN [status |-> StatusNotFound, error |-> ErrEventNotFound]
    ELSE [status |-> StatusInternalServerError,
          error |-> "failed to get event information"]

\* validator.New().Struct(req) of createEvent.New: the tag "required" on an
\* int rejects the zero value and nothing else.
ErrValidation == "invalid request"
Required(n) == n # 0

\* The total_seats and deadline a client may send, and the ids of the events
\* created over HTTP.
HandlerSeatInputs == {-1} \cup SeatInputs
HandlerDeadlineInputs == {-1} \cup DeadlineInputs
HttpEventIds == {1}

\* createEvent.New (title and date are present).
HandleCreateEvent(totalSeats, deadline) ==
    LET req == [NoResponse EXCEPT !.handler = "createEvent",
                                  !.total_seats = totalSeats,
                                  !.deadline = deadline]
    IN  IF ~(Required(totalSeats) /\ Required(deadline))
          THEN /\ resp' = [req EXCEPT !.status = StatusBadRequest,
                                      !.error = ErrValidation]
               /\ UNCHANGED <<events, bookings, nextId, now, last, pre>>
          ELSE /\ Len(events) < Cardinality(HttpEventIds)
               /\ CreateEvent(totalSeats, deadline)
               /\ resp' = IF last'.res = OK
                            THEN [req EXCEPT !.err = OK, !.status = StatusOK,
                                             !.event = [NoEvent EXCEPT !.id = last'.ev]]
                            ELSE [req EXCEPT !.err = last'.res,
                                             !.status = StatusInternalServerError,
                                             !.error = "failed to add event"]

\* The {id} of the URL and the body of a book or confirm request: no id, an
\* id that is no integer, the ids of the events; a body that is no JSON, a
\* JSON object without user_id, one with an empty user_id, one with a user.
IdStrings == {"", "abc", "1", "2"}
Bodies ==
    {[json |-> FALSE, has_user_id |-> FALSE, user_id |-> ""],
     [json |-> TRUE, has_user_id |-> FALSE, user_id |-> ""]}
    \cup {[json |-> TRUE, has_user_id |-> TRUE, user_id |-> u] : u \in Users \cup {""}}

\* strconv.Atoi on the id strings.
Atoi(s) ==
    IF s = "1" THEN [n |-> 1, err |-> FALSE]
    ELSE IF s = "2" THEN [n |-> 2, err |-> FALSE]
    ELSE [n |-> 0, err |-> TRUE]

\* render.DecodeJSON into a BookingRequest: a key that is absent leaves
\* UserId at its zero value.
DecodeJSON(body) ==
    IF ~body.json THEN [UserId |-> "", err |-> TRUE]
    ELSE [UserId |-> IF body.has_user_id THEN body.user_id ELSE "", err |-> FALSE]

\* The request has no event id, an event id that is no integer, a body that
\* is no JSON, or no user_id or an empty one.
Malformed(idStr, body) ==
    \/ idStr = ""
    \/ idStr \notin {"1", "2"}
    \/ ~body.json
    \/ ~body.has_user_id
    \/ body.user_id = ""

\* Variant of the checks without the validation of the decoded request.
RejectionNoValidation(idStr, body) ==
    IF idStr = "" THEN "event id is required"
    ELSE IF Atoi(idStr).err THEN "invalid event id format"
    ELSE IF DecodeJSON(body).err THEN "failed to decode request"
    ELSE ""

\* The checks of createBooking.New and confirmBooking.New ahead of the storage
\* call, in the order of the code: the error of the 400 response, "" when the
\* request passes.  The tag "required" on UserId rejects the empty string.
Rejection(idStr, body) ==
    IF idStr = "" THEN "event id is required"
    ELSE IF Atoi(idStr).err THEN "invalid event id format"
    ELSE IF DecodeJSON(body).err THEN "failed to decode request"
    ELSE IF DecodeJSON(body).UserId = "" THEN ErrValidation
    ELSE ""

\* createBooking.New.  A rejected request does not reach the store, so no
\* failure of the store is drawn for it; resp.malformed records what kind of
\* request was served.
HandleCreateBooking(idStr, body, fault) ==
    LET req == [NoResponse EXCEPT !.handler = "createBooking",
                                  !.malformed = Malformed(idStr, body)]
        e == Atoi(idStr).n
        u == DecodeJSON(body).UserId
    IN  IF Rejection(idStr, body) # ""
          THEN /\ fault = "none"
               /\ resp' = [req EXCEPT !.status = StatusBadRequest,
                                      !.error = Rejection(idStr, body)]
               /\ UNCHANGED <<events, bookings, nextId, now, last, pre>>
          ELSE /\ IF fault = "none" THEN BookEvent(e, u)
                                    ELSE BookEventFails(e, u, fault)
               /\ resp' = [req EXCEPT
                              !.ev = e, !.user = u, !.fault = fault,
                              !.err = last'.res,
                              !.status = CreateBookingResponse(last'.res).status,
                              !.error = CreateBookingResponse(last'.res).error]

\* confirmBooking.New.
HandleConfirmBooking(idStr, body, fault) ==
    LET req == [NoResponse EXCEPT !.handler = "confirmBooking",
                                  !.malformed = Malformed(idStr, body)]
        e == Atoi(idStr).n
        u == DecodeJSON(body).UserId
    IN  IF Rejection(idStr, body) # ""
          THEN /\ fault = "none"
               /\ resp' = [req EXCEPT !.status = StatusBadRequest,
                                      !.error = Rejection(idStr, body)]
               /\ UNCHANGED <<events, bookings, nextId, now, last, pre>>
          ELSE /\ IF fault = "none" THEN ConfirmBooking(e, u)
                                    ELSE ConfirmBookingFails(e, u, fault)
               /\ resp' = [req EXCEPT
                              !.ev = e, !.user = u, !.fault = fault,
                              !.err = last'.res,
                              !.status = ConfirmBookingResponse(last'.res).status,
                              !.error = ConfirmBookingResponse(last'.res).error]

\* This read directly follows an answered read of the same event.
ReadAgain(e, fault) ==
    /\ resp.handler = "getEventInfo" /\ resp.ev = e
    /\ resp.fault = "none" /\ fault = "none"

\* Variant of getEventInfo.New that cancels the event's pending bookings
\* once it has read them.
HandleGetEventInfoDropsPending(e, fault) ==
    LET got == GetEventWithBookings(bookings, e, fault) IN
    /\ resp' = [NoResponse EXCEPT !.handler = "getEventInfo",
                                  !.ev = e, !.fault = fault,
                                  !.err = got.err,
                                  !.status = GetEventInfoResponse(got.err).status,
                                  !.error = GetEventInfoResponse(got.err).error,
                                  !.event = IF got.err = OK THEN got.event ELSE NoEvent,
                                  !.bookings = IF got.err = OK THEN got.bookings ELSE {},
                                  !.again = ReadAgain(e, fault)]
    /\ bookings' = {b \in bookings : b.event_id # e \/ b.confirmed}
    /\ UNCHANGED <<events, nextId, now, last, pre>>

\* getEventInfo.New: the event and its bookings go into the body only when
\* the storage call returned no error.
HandleGetEventInfo(e, fault) ==
    LET got == GetEventWithBookings(bookings, e, fault) IN
    /\ resp' = [NoResponse EXCEPT !.handler = "getEventInfo",
                                  !.ev = e, !.fault = fault,
                                  !.err = got.err,
                                  !.status = GetEventInfoResponse(got.err).status,
                                  !.error = GetEventInfoResponse(got.err).error,
                                  !.event = IF got.err = OK THEN got.event ELSE NoEvent,
                                  !.bookings = IF got.err = OK THEN got.bookings ELSE {},
                                  !.again = ReadAgain(e, fault)]
    /\ UNCHANGED <<events, bookings, nextId, now, last, pre>>

NextHttp ==
    \/ \E s \in HandlerSeatInputs, d \in HandlerDeadlineInputs :
           HandleCreateEvent(s, d) /\ UNCHANGED <<tx, trace, rt>>
    \/ \E i \in IdStrings, b \in Bodies, f \in BookFaults :
           HandleCreateBooking(i, b, f) /\ UNCHANGED <<tx, trace, rt>>
    \/ \E i \in IdStrings, b \in Bodies, f \in ConfirmFaults :
           HandleConfirmBooking(i, b, f) /\ UNCHANGED <<tx, trace, rt>>
    \/ \E e \in EventIds, f \in ReadFaults :
           HandleGetEventInfo(e, f) /\ UNCHANGED <<tx, trace, rt>>

SpecHttp == Init /\ [][NextHttp]_vars

\* ---------------------------------------------------------------- listing
\* Events with their date, and GetAllEvents over them.
Dates == {1, 2}
ListFaults == {"none", "events", "count"}
ErrGetEvents == "failed to get events: store failure"

\* Storage.CreateEvent, the date of the event kept in the row.
CreateEventDated(date, totalSeats, deadline) ==
    /\ Len(events) < Cardinality(EventIds)
    /\ IF totalSeats > 0 /\ deadline > 0
         THEN /\ events' = Append(events,
                     [total_seats |-> totalSeats, deadline_minutes |-> deadline,
                      date |-> date])
              /\ last' = Call("create", Len(events) + 1, "", OK)
         ELSE /\ events' = events
              /\ last' = Call("create", 0, "", ErrCreateEvent)
    /\ pre' = bookings
    /\ UNCHANGED <<bookings, nextId, now>>

\* The orders ORDER BY date ASC may give n events: rows of equal date come
\* in either order.
DateOrders(n) ==
    {p \in [1..n -> 1..n] :
        /\ \A i, j \in 1..n : i # j => p[i] # p[j]
        /\ \A i, j \in 1..n : i < j => events[p[i]].date <= events[p[j]].date}

\* Variant of GetAllEvents whose count takes pending bookings too.
GetAllEventsCountsPending(bk, fault) ==
    IF fault = "events" \/ (fault = "count" /\ Len(events) > 0)
      THEN {[events |-> <<>>, err |-> ErrGetEvents]}
      ELSE {[events |->
                [i \in 1..Len(events) |->
                    [id |-> p[i],
                     total_seats |-> events[p[i]].total_seats,
                     deadline_minutes |-> events[p[i]].deadline_minutes,
                     date |-> events[p[i]].date,
                     booked_seats |->
                         Cardinality({b \in bk : b.event_id = p[i]})]],
             err |-> OK] : p \in DateOrders(Len(events))}

\* Storage.GetAllEvents on the rows bk: the results it may return.  Each
\* event of the first query gets the COUNT(*) of its confirmed bookings; the
\* count query runs once per event, so it cannot fail when there is none.
GetAllEvents(bk, fault) ==
    IF fault = "events" THEN {[events |-> <<>>, err |-> ErrGetEvents]}
    ELSE IF fault = "count" /\ Len(events) > 0
      THEN {[events |-> <<>>, err |-> ErrBookedSeats]}
    ELSE {[events |->
              [i \in 1..Len(events) |->
                  [id |-> p[i],
                   total_seats |-> events[p[i]].total_seats,
                   deadline_minutes |-> events[p[i]].deadline_minutes,
                   date |-> events[p[i]].date,
                   booked_seats |->
                       Cardinality({b \in bk : b.event_id = p[i] /\ b.confirmed})]],
           err |-> OK] : p \in DateOrders(Len(events))}

\* getAllEvents.New.
HandleGetAllEvents(fault) ==
    /\ \E got \in GetAllEvents(bookings, fault) :
           resp' = [NoResponse EXCEPT
                       !.handler = "getAllEvents", !.fault = fault,
                       !.err = got.err,
                       !.status = IF got.err = OK THEN StatusOK
                                  ELSE StatusInternalServerError,
                       !.error = IF got.err = OK THEN "" ELSE "failed to get events",
                       !.events = IF got.err = OK THEN got.events ELSE <<>>]
    /\ UNCHANGED <<events, bookings, nextId, now, last, pre>>

\* resp holds the response of the latest step, NoResponse after a step that
\* is no request to the listing handler.
NextList ==
    \/ \E t \in Dates, s \in Seats, d \in Deadlines :
           CreateEventDated(t, s, d) /\ resp' = NoResponse /\ UNCHANGED <<tx, trace, rt>>
    \/ \E e \in EventIds, u \in Users :
           BookEvent(e, u) /\ resp' = NoResponse /\ UNCHANGED <<tx, trace, rt>>
    \/ \E e \in EventIds, u \in Users :
           ConfirmBooking(e, u) /\ resp' = NoResponse /\ UNCHANGED <<tx, trace, rt>>
    \/ \E f \in ListFaults : HandleGetAllEvents(f) /\ UNCHANGED <<tx, trace, rt>>

SpecList == Init /\ [][NextList]_vars

\* ---------------------------------------------------------------- reads
\* GetEventWithBookings query by query.  Its queries go to s.DB, outside any
\* transaction: each reads the rows committed when it runs, and other calls
\* commit between them.  resp is the response being built: status 0 while the
\* read is between GetEvent and the query of the bookings.
ReadInFlight == resp.handler = "getEventInfo" /\ resp.status = 0

\* s.GetEvent(eventID) of GetEventWithBookings: the event row and the count
\* of its confirmed bookings; an error ends the request.
ReadGetEvent(e) ==
    LET got == GetEvent(bookings, e, "none")
        req == [NoResponse EXCEPT !.handler = "getEventInfo", !.ev = e]
    IN  /\ ~ReadInFlight
        /\ resp' = IF got.err = OK
                     THEN [req EXCEPT !.event = got.event]
                     ELSE [req EXCEPT
                              !.err = got.err,
                              !.status = GetEventInfoResponse(got.err).status,
                              !.error = GetEventInfoResponse(got.err).error]
        /\ UNCHANGED <<events, bookings, nextId, now, last, pre>>

\* The query of the bookings, and the response with what both reads gave.
ReadGetBookings ==
    /\ ReadInFlight
    /\ resp' = [resp EXCEPT !.err = OK, !.status = StatusOK,
                            !.bookings = {b \in bookings : b.event_id = resp.ev}]
    /\ UNCHANGED <<events, bookings, nextId, now, last, pre>>

NextRead ==
    \/ \E e \in EventIds : ReadGetEvent(e) /\ UNCHANGED <<tx, trace, rt>>
    \/ ReadGetBookings /\ UNCHANGED <<tx, trace, rt>>
    \/ \E e \in EventIds, u \in Users :
           BookEvent(e, u) /\ UNCHANGED <<tx, trace, resp, rt>>
    \/ \E e \in EventIds, u \in Users :
           ConfirmBooking(e, u) /\ UNCHANGED <<tx, trace, resp, rt>>
    \/ CancelExpiredBookings /\ UNCHANGED <<tx, trace, resp, rt>>
    \/ Tick /\ UNCHANGED <<tx, trace, resp, rt>>

SpecRead == InitOneEvent /\ [][NextRead]_vars

\* ---------------------------------------------------------------- main
\* main from line 75 on: the sweeper goroutine, the server goroutine and
\* main itself, around the channel stop of capacity 1 that signal.Notify
\* feeds.  The ticker's period is one minute, the unit of the clock.  The
\* process is over when main returns or panics, and nothing runs after that.
Alive == rt.mainpc # "exit"

\* SIGTERM or SIGINT arrives: Notify sends without blocking and drops the
\* signal when stop is full.
Signal ==
    /\ Alive
    /\ rt.signals < MaxSignals
    /\ rt' = [rt EXCEPT !.signals = @ + 1, !.stop = 1, !.signalled = TRUE]
    /\ UNCHANGED <<events, bookings, nextId, now, last, pre, tx, trace, resp>>

\* srv.ListenAndServe() returns an error other than ErrServerClosed.
ListenFails ==
    /\ Alive
    /\ rt.server = "serving"
    /\ rt' = [rt EXCEPT !.server = "failed"]
    /\ UNCHANGED <<events, bookings, nextId, now, last, pre, tx, trace, resp>>

\* stop <- syscall.SIGTERM of the server goroutine: blocks while stop is full.
ServerSends ==
    /\ Alive
    /\ rt.server = "failed"
    /\ rt.stop = 0
    /\ rt' = [rt EXCEPT !.server = "ended", !.stop = 1, !.signalled = TRUE]
    /\ UNCHANGED <<events, bookings, nextId, now, last, pre, tx, trace, resp>>

\* A minute passes; the ticker, unless stopped, puts a tick on ticker.C,
\* which holds one.
TickerFires ==
    /\ Alive
    /\ Tick
    /\ rt' = [rt EXCEPT !.tick = @ \/ rt.sweeper # "returned"]
    /\ UNCHANGED <<tx, trace, resp>>

\* A request is served: the server listens and the store is open.
Serve(e, u) ==
    /\ Alive
    /\ rt.server = "serving"
    /\ ~rt.closed
    /\ BookEvent(e, u)
    /\ UNCHANGED <<tx, trace, resp, rt>>

\* case <-ticker.C of the sweeper's select.
SweeperTick ==
    /\ Alive
    /\ rt.sweeper = "select"
    /\ rt.tick
    /\ rt' = [rt EXCEPT !.sweeper = "sweep", !.tick = FALSE]
    /\ UNCHANGED <<events, bookings, nextId, now, last, pre, tx, trace, resp>>

\* case <-stop of the sweeper's select: return.
SweeperStop ==
    /\ Alive
    /\ rt.sweeper = "select"
    /\ rt.stop = 1
    /\ rt' = [rt EXCEPT !.sweeper = "returned", !.stop = 0]
    /\ UNCHANGED <<events, bookings, nextId, now, last, pre, tx, trace, resp>>

\* storage.CancelExpiredBookings() returns nil.
SweepRuns ==
    /\ Alive
    /\ rt.sweeper = "sweep"
    /\ ~rt.closed
    /\ CancelExpiredBookings
    /\ rt' = [rt EXCEPT !.sweeper = "select", !.swept = "ok"]
    /\ UNCHANGED <<tx, trace, resp>>

\* Variant of a failed sweep after which the goroutine returns.
SweepFailsAndReturns ==
    /\ Alive
    /\ rt.sweeper = "sweep"
    /\ ~rt.closed
    /\ last' = Call("sweep", 0, "", ErrCancelExpired)
    /\ pre' = bookings
    /\ rt' = [rt EXCEPT !.sweeper = "returned", !.swept = "failed"]
    /\ UNCHANGED <<events, bookings, nextId, now, tx, trace, resp>>

\* storage.CancelExpiredBookings() returns an error of the open store: it is
\* logged and the loop goes on.
SweepFails ==
    /\ Alive
    /\ rt.sweeper = "sweep"
    /\ ~rt.closed
    /\ last' = Call("sweep", 0, "", ErrCancelExpired)
    /\ pre' = bookings
    /\ rt' = [rt EXCEPT !.sweeper = "select", !.swept = "failed"]
    /\ UNCHANGED <<events, bookings, nextId, now, tx, trace, resp>>

\* storage.CancelExpiredBookings() on the store main has closed: s.DB.Exec
\* returns "sql: database is closed".
SweepOnClosedStore ==
    /\ Alive
    /\ rt.sweeper = "sweep"
    /\ rt.closed
    /\ last' = Call("sweep", 0, "", ErrCancelExpired)
    /\ pre' = bookings
    /\ rt' = [rt EXCEPT !.sweeper = "select", !.swept = "closed"]
    /\ UNCHANGED <<events, bookings, nextId, now, tx, trace, resp>>

\* sign := <-stop of main.
MainReceives ==
    /\ rt.mainpc = "wait"
    /\ rt.stop = 1
    /\ rt' = [rt EXCEPT !.mainpc = "shutdown", !.stop = 0]
    /\ UNCHANGED <<events, bookings, nextId, now, last, pre, tx, trace, resp>>

\* srv.Shutdown(nil) with every connection idle: the listener closes and the
\* call returns without touching its context.
MainShutdown ==
    /\ rt.mainpc = "shutdown"
    /\ rt' = [rt EXCEPT !.mainpc = "close",
                        !.server = IF @ = "serving" THEN "closed" ELSE @]
    /\ UNCHANGED <<events, bookings, nextId, now, last, pre, tx, trace, resp>>

\* srv.Shutdown(nil) with a connection busy: the wait selects on ctx.Done()
\* of the nil context and main panics; the process ends with the store open.
MainShutdownPanics ==
    /\ rt.mainpc = "shutdown"
    /\ rt.server = "serving"
    /\ rt' = [rt EXCEPT !.mainpc = "exit"]
    /\ UNCHANGED <<events, bookings, nextId, now, last, pre, tx, trace, resp>>

\* storage.Close().
MainCloses ==
    /\ rt.mainpc = "close"
    /\ rt' = [rt EXCEPT !.mainpc = "closed", !.closed = TRUE]
    /\ UNCHANGED <<events, bookings, nextId, now, last, pre, tx, trace, resp>>

\* main logs and returns: the process ends.
MainReturns ==
    /\ rt.mainpc = "closed"
    /\ rt' = [rt EXCEPT !.mainpc = "exit"]
    /\ UNCHANGED <<events, bookings, nextId, now, last, pre, tx, trace, resp>>

SweeperNext ==
    \/ SweeperTick
    \/ SweeperStop
    \/ SweepRuns
    \/ SweepFails
    \/ SweepOnClosedStore

MainNext ==
    \/ MainReceives
    \/ MainShutdown
    \/ MainShutdownPanics
    \/ MainCloses
    \/ MainReturns

NextMain ==
    \/ Signal
    \/ ListenFails
    \/ ServerSends
    \/ TickerFires
    \/ \E e \in EventIds, u \in Users : Serve(e, u)
    \/ SweeperNext
    \/ MainNext

\* The Go scheduler runs a goroutine that can take a step: the sweeper and
\* main each go on while they are not blocked.  Signals, store failures and
\* requests come from outside and are not forced.
SpecMain ==
    /\ InitOneEvent
    /\ [][NextMain]_vars
    /\ WF_vars(SweeperNext)
    /\ WF_vars(MainNext)

\* ---------------------------------------------------------------- sweeper
\* The sweeper goroutine alone with the ticker and the requests, no signal
\* arriving and the store working: the ticker fires every minute and the
\* scheduler runs the sweeper whenever it can take a step.
NextSweeper ==
    \/ TickerFires
    \/ \E e \in EventIds, u \in Users : Serve(e, u)
    \/ \E e \in EventIds, u \in Users :
           ConfirmBooking(e, u) /\ UNCHANGED <<tx, trace, resp, rt>>
    \/ SweeperTick
    \/ SweepRuns

SpecSweeper ==
    /\ InitOneEvent
    /\ [][NextSweeper]_vars
    /\ WF_vars(TickerFires)
    /\ WF_vars(SweeperTick)
    /\ WF_vars(SweepRuns)

\* ---------------------------------------------------------------- claims
DeadlineOf(b) == events[b.event_id].deadline_minutes

\* C1: with every call run as one atomic step, no event ever has more
\* confirmed bookings than total_seats.
C1_ConfirmedWithinCapacity ==
    \A e \in DOMAIN events : ConfirmedCount(bookings, e) <= events[e].total_seats

\* C1 witness: an event is full and a confirmation was refused for it.
C1_Witness ==
    /\ last.op = "confirm" /\ last.res = ErrNoSeats
    /\ ConfirmedCount(bookings, last.ev) = events[last.ev].total_seats

\* C2: with ConfirmBooking transactions of different holders interleaved
\* statement by statement, no event gets more committed confirmed bookings
\* than total_seats.
C2_InFlightConfirmsWithinCapacity ==
    \A e \in DOMAIN events :
        ~(Cardinality({b \in bookings : b.confirmed /\ b.event_id = e})
              > events[e].total_seats)

\* C3: at most one pending booking per (event, holder), also when two
\* BookEvent transactions for the pair both pass the duplicate test before
\* either inserts.
C3_OnePendingPerHolder ==
    \A e \in EventIds, u \in Users : Cardinality(PendingRows(bookings, e, u)) <= 1

\* C3 witness: an INSERT was rejected by the unique index, which happens only
\* to a transaction that passed the duplicate test, and one pending row stands.
C3_Witness ==
    \E p \in Procs :
        /\ tx[p].pc = "book_done" /\ tx[p].res = ErrCreateBooking
        /\ Cardinality(PendingRows(bookings, tx[p].ev, tx[p].user)) = 1

\* C4: a pending booking older than its event's deadline_minutes is never
\* turned confirmed by any step.
C4_ExpiredNeverConfirmed ==
    [][\A b \in bookings :
          (~b.confirmed /\ now - b.created_at > DeadlineOf(b))
              => \A c \in bookings' : c.id = b.id => ~c.confirmed]_vars

\* C5: a booking that stays in the table keeps its event, holder and
\* created_at, and once confirmed stays confirmed.
C5_OnlyConfirmedChanges ==
    [][\A b \in bookings : \A c \in bookings' :
          c.id = b.id =>
              /\ c.event_id = b.event_id
              /\ c.user_id = b.user_id
              /\ c.created_at = b.created_at
              /\ (b.confirmed => c.confirmed)]_vars

\* C5 witness: a booking made in an earlier minute has just been confirmed.
C5_Witness ==
    /\ last.op = "confirm" /\ last.res = OK
    /\ \E b \in bookings :
           /\ b.confirmed /\ b.created_at < now
           /\ \E c \in pre : c.id = b.id /\ ~c.confirmed

\* The table before the i-th call of the trace.
TraceBefore(i) == IF i = 1 THEN {} ELSE trace[i - 1].bk

\* The calls i .. i+n-1 of the trace are book(e, a), book(e, b),
\* confirm(e, a), confirm(e, b), as far as n goes.
SeatRace(i, n, e, a, b) ==
    LET want == <<[op |-> "book", user |-> a], [op |-> "book", user |-> b],
                  [op |-> "confirm", user |-> a], [op |-> "confirm", user |-> b]>>
    IN  /\ i + n - 1 <= Len(trace)
        /\ \A j \in 1..n :
               /\ trace[i + j - 1].call.op = want[j].op
               /\ trace[i + j - 1].call.ev = e
               /\ trace[i + j - 1].call.user = want[j].user

\* C6: on an event with one seat and no bookings, A places, B places and A
\* confirms with success; B's confirmation then fails with "no available
\* seats" and B's booking stays pending.
C6_OneSeatTwoHolders ==
    \A e \in DOMAIN events, a \in Users, b \in Users, i \in 1..Len(trace) :
        (/\ a # b
         /\ events[e].total_seats = 1
         /\ {r \in TraceBefore(i) : r.event_id = e} = {})
        => /\ \A n \in 1..3 :
                  SeatRace(i, n, e, a, b) => trace[i + n - 1].call.res = OK
           /\ SeatRace(i, 4, e, a, b) =>
                  /\ trace[i + 3].call.res = ErrNoSeats
                  /\ trace[i + 3].bk = trace[i + 2].bk
                  /\ PendingRows(trace[i + 3].bk, e, b) # {}
                  /\ ConfirmedCount(trace[i + 3].bk, e) = 1

\* C6 witness: the four calls have run on a one-seat event.
C6_Witness ==
    /\ events[1].total_seats = 1
    /\ SeatRace(1, 4, 1, "A", "B")
    /\ trace[4].call.res = ErrNoSeats

\* C7: BookEvent on an event with a free seat, by a holder without a pending
\* booking there, succeeds; ConfirmBooking for the same event and holder
\* directly after it succeeds, leaves that booking confirmed and raises the
\* event's confirmed count by one.
C7_PlaceThenConfirm ==
    /\ (/\ last.op = "book"
        /\ EventExists(last.ev)
        /\ ConfirmedCount(pre, last.ev) < events[last.ev].total_seats
        /\ PendingRows(pre, last.ev, last.user) = {})
       => /\ last.res = OK
          /\ PendingRows(bookings, last.ev, last.user) # {}
    /\ (last.op = "confirm" /\ last.after = "book")
       => /\ last.res = OK
          /\ \E b \in PendingRows(pre, last.ev, last.user) :
                 [b EXCEPT !.confirmed = TRUE] \in bookings
          /\ ConfirmedCount(bookings, last.ev) = ConfirmedCount(pre, last.ev) + 1

\* C7 witness: a confirmation directly after the placement has returned, on
\* an event that already had a confirmed booking.
C7_Witness ==
    /\ last.op = "confirm" /\ last.after = "book" /\ last.res = OK
    /\ ConfirmedCount(bookings, last.ev) = 2

\* C8: ConfirmBooking for a pair without a pending booking fails with "no
\* pending booking found" and leaves the table as it was.
C8_ConfirmWithoutPending ==
    (last.op = "confirm" /\ PendingRows(pre, last.ev, last.user) = {})
        => last.res = ErrNoPending /\ bookings = pre

\* C8 witness: such a call has returned while other bookings exist.
C8_Witness ==
    /\ last.op = "confirm" /\ last.res = ErrNoPending
    /\ PendingRows(pre, last.ev, last.user) = {}
    /\ \A b \in pre : b.user_id # last.user
    /\ pre # {}

\* C9: BookEvent on an event whose confirmed count equals total_seats fails
\* with "no available seats", whoever the holder, and inserts nothing.
C9_BookFullEvent ==
    (/\ last.op = "book"
     /\ EventExists(last.ev)
     /\ ConfirmedCount(pre, last.ev) = events[last.ev].total_seats)
        => last.res = ErrNoSeats /\ bookings = pre

\* C9 witness: a placement on a full event has been refused.
C9_Witness ==
    /\ last.op = "book" /\ last.res = ErrNoSeats
    /\ EventExists(last.ev)
    /\ ConfirmedCount(pre, last.ev) = events[last.ev].total_seats

\* C10: BookEvent for a pair that has a pending booking, on an event that is
\* not full, fails with "user already has pending booking for this event" and
\* leaves the table as it was.
C10_BookDuplicatePending ==
    (/\ last.op = "book"
     /\ EventExists(last.ev)
     /\ ConfirmedCount(pre, last.ev) < events[last.ev].total_seats
     /\ PendingRows(pre, last.ev, last.user) # {})
        => last.res = ErrDuplicatePending /\ bookings = pre

\* C10 witness: a second placement by a holder with a pending booking has
\* been refused on an event with a free seat.
C10_Witness ==
    /\ last.op = "book" /\ last.res = ErrDuplicatePending
    /\ ConfirmedCount(pre, last.ev) < events[last.ev].total_seats
    /\ PendingRows(pre, last.ev, last.user) # {}

\* A step of CancelExpiredBookings: the only call that records "sweep".
SweepStep == last'.op = "sweep" /\ now' = now

\* The pending booking b is older than its event's deadline_minutes.
Overdue(b) == ~b.confirmed /\ now - b.created_at > DeadlineOf(b)

\* C11: a sweep deletes every pending booking whose age exceeds its event's
\* deadline_minutes; GetEventWithBookings on the table it leaves does not
\* list the booking, and a ConfirmBooking for the pair that comes after the
\* sweep, with no call in between, fails with "no pending booking found".
C11_SweepDeletesOverdue ==
    [][/\ SweepStep =>
              \A b \in bookings : Overdue(b) =>
                  /\ b \notin bookings'
                  /\ GetEventWithBookings(bookings', b.event_id, "none").err = OK
                  /\ b \notin GetEventWithBookings(bookings', b.event_id, "none").bookings
       /\ (last.op = "sweep" /\ last'.op = "confirm") =>
              \A b \in pre \ bookings :
                  (last'.ev = b.event_id /\ last'.user = b.user_id)
                      => last'.res = ErrNoPending /\ bookings' = bookings]_vars

\* C11 witness: a sweep has returned and a pending booking it found is gone.
C11_Witness ==
    /\ last.op = "sweep"
    /\ \E b \in pre : ~b.confirmed /\ b \notin bookings

\* C12: a ConfirmBooking that has returned success has left a confirmed
\* booking for its (event, holder), also when a sweep deleted the pending row
\* between the transaction's lookup and its UPDATE: such a call returns "no
\* pending booking found" instead.  No committed row is half written.
C12_ConfirmOfSweptRowFails ==
    /\ \A p \in Procs :
           (tx[p].pc = "confirm_done" /\ tx[p].res = OK)
               => \E b \in bookings :
                      /\ b.event_id = tx[p].ev
                      /\ b.user_id = tx[p].user
                      /\ b.confirmed
    /\ \A b \in bookings :
           /\ b.confirmed \in BOOLEAN
           /\ EventExists(b.event_id)
           /\ b.user_id \in Users

\* C13: a createBooking or confirmBooking request whose storage call returns
\* an error, whether a refusal or a store failure at any statement, leaves
\* events and bookings exactly as they were.
C13_FailedCallChangesNothing ==
    [][(/\ resp'.handler \in {"createBooking", "confirmBooking"}
        /\ resp'.err # OK)
           => /\ events' = events
              /\ bookings' = bookings
              /\ resp'.status # StatusOK]_vars

\* C13 witness: Commit failed in a ConfirmBooking that had found its pending
\* row and a free seat, and the row is still pending.
C13_Witness ==
    /\ resp.handler = "confirmBooking" /\ resp.fault = "commit"
    /\ resp.err = ErrCommit
    /\ bookings = pre
    /\ PendingRows(bookings, resp.ev, resp.user) # {}

\* C14: a createBooking request for an event id that does not exist creates
\* no booking and is answered as not found: with status 404, and not with
\* the response a failure of the store gets.
C14_BookUnknownEventNotFound ==
    (/\ resp.handler = "createBooking"
     /\ resp.fault = "none"
     /\ ~EventExists(resp.ev))
        => /\ bookings = pre
           /\ resp.status = StatusNotFound
           /\ [status |-> resp.status, error |-> resp.error]
                  # CreateBookingResponse(ErrSeatsInfoStore)

\* C15: a sweep leaves every confirmed booking in the table as it is,
\* whatever its age, and leaves the events as they are.
C15_SweepKeepsConfirmed ==
    [][SweepStep =>
          /\ events' = events
          /\ \A b \in bookings : b.confirmed => b \in bookings'
          /\ bookings' \subseteq bookings]_vars

\* C15 witness: a sweep has deleted a pending booking and kept a confirmed
\* one that is older than its event's deadline_minutes.
C15_Witness ==
    /\ last.op = "sweep"
    /\ pre \ bookings # {}
    /\ \E b \in pre \cap bookings :
           b.confirmed /\ now - b.created_at > DeadlineOf(b)

\* C16: a sweep deletes a pending booking exactly when its age exceeds the
\* deadline_minutes of its own event, whatever the other events' deadlines.
C16_SweepUsesOwnDeadline ==
    [][SweepStep =>
          \A b \in bookings :
              ~b.confirmed =>
                  (b \notin bookings' <=> now - b.created_at > DeadlineOf(b))]_vars

\* C16 witness: of two pending bookings of the same age on events with
\* different deadlines, a sweep has deleted one and kept the other.
C16_Witness ==
    /\ last.op = "sweep"
    /\ \E b \in pre \ bookings, c \in pre \cap bookings :
           /\ ~b.confirmed /\ ~c.confirmed
           /\ b.created_at = c.created_at
           /\ DeadlineOf(b) < DeadlineOf(c)

\* C19: a createEvent request with total_seats <= 0 or deadline <= 0 is
\* answered 400 as a validation error and stores no event; every stored
\* event has total_seats > 0 and deadline_minutes > 0.
C19_CreateEventRejectsNonPositive ==
    [][/\ (/\ resp'.handler = "createEvent"
           /\ (resp'.total_seats <= 0 \/ resp'.deadline <= 0))
              => /\ resp'.status = StatusBadRequest
                 /\ events' = events
       /\ \A e \in DOMAIN events' :
              events'[e].total_seats > 0 /\ events'[e].deadline_minutes > 0]_vars

\* A step of getEventInfo.New for an event that does not exist, the first
\* query not failing.
UnknownEventRead ==
    /\ resp'.handler = "getEventInfo"
    /\ ~EventExists(resp'.ev)
    /\ resp'.fault # "event"

\* C20: GetEventWithBookings for an event id that does not exist returns
\* "event not found" with neither event nor bookings; getEventInfo.New answers
\* 404 for that error and for no other, and 500 for every store failure.
C20_ReadUnknownEventNotFound ==
    [][resp'.handler = "getEventInfo" =>
          /\ UnknownEventRead =>
                 /\ GetEventWithBookings(bookings, resp'.ev, resp'.fault)
                        = [event |-> NoEvent, bookings |-> {}, err |-> ErrEventNotFound]
                 /\ resp'.error = ErrEventNotFound
                 /\ resp'.event = NoEvent /\ resp'.bookings = {}
          /\ resp'.status = StatusNotFound <=> UnknownEventRead
          /\ (~UnknownEventRead /\ resp'.fault # "none") =>
                 /\ resp'.status = StatusInternalServerError
                 /\ resp'.event = NoEvent /\ resp'.bookings = {}
          /\ (~UnknownEventRead /\ resp'.fault = "none") =>
                 /\ resp'.status = StatusOK
                 /\ resp'.event.id = resp'.ev]_vars

\* C20 witness: a read of a missing event was answered 404 while another
\* event has bookings.
C20_Witness ==
    /\ resp.handler = "getEventInfo" /\ resp.status = StatusNotFound
    /\ ~EventExists(resp.ev)
    /\ bookings # {}

\* C17: a sweep that fails with a store error leaves the sweeper in its
\* loop, and every tick that arrives after a failure leads to another sweep
\* attempt unless a shutdown signal has been received.
C17_SweeperSurvivesFailure ==
    /\ [][(rt.sweeper = "sweep" /\ rt'.swept = "failed" /\ rt'.sweeper # "sweep")
             => rt'.sweeper = "select"]_vars
    /\ ((rt.swept = "failed" /\ rt.tick) ~> (rt.sweeper = "sweep" \/ rt.signalled))

\* C17 witness: after a failed sweep the sweeper has taken the next tick and
\* is about to sweep again, no signal having arrived.
C17_Witness ==
    /\ rt.swept = "failed"
    /\ rt.sweeper = "sweep"
    /\ ~rt.signalled

\* C18: once the store has been closed on shutdown, the sweeper runs no
\* sweep against it.
C18_NoSweepAfterClose ==
    rt.closed => rt.swept # "closed"

C22_ListAllEvents ==
    [][(resp'.handler = "getAllEvents" /\ resp'.fault = "none") =>
          LET r == resp'.events IN
          /\ resp'.status = StatusOK
          /\ Len(r) = Len(events)
          /\ \A e \in DOMAIN events :
                 Cardinality({i \in DOMAIN r : r[i].id = e}) = 1
          /\ \A i, j \in DOMAIN r : i < j => r[i].date <= r[j].date
          /\ \A i \in DOMAIN r :
                 /\ r[i].date = events[r[i].id].date
                 /\ r[i].total_seats = events[r[i].id].total_seats
                 /\ r[i].booked_seats = ConfirmedCount(bookings, r[i].id)
          /\ events' = events /\ bookings' = bookings]_vars

\* C22 witness: the event created second has the earlier date and is listed
\* first, with one confirmed booking counted and one pending booking not.
C22_Witness ==
    /\ resp.handler = "getAllEvents" /\ resp.status = StatusOK
    /\ Len(resp.events) = 2
    /\ resp.events[1].id = 2
    /\ resp.events[1].booked_seats = 1
    /\ \E b \in bookings : b.event_id = 2 /\ ~b.confirmed

\* C25: a book or confirm request with no event id, an event id that is no
\* integer, a body that is no JSON, or no user_id or an empty one, is answered
\* 400 and BookEvent / ConfirmBooking is not called: events and bookings, and
\* the latest storage call, stay as they were.
C25_MalformedRequestRejected ==
    [][(/\ resp'.handler \in {"createBooking", "confirmBooking"}
        /\ resp'.malformed) =>
          /\ resp'.status = StatusBadRequest
          /\ events' = events /\ bookings' = bookings /\ nextId' = nextId
          /\ last' = last /\ pre' = pre]_vars

\* C25 witness: a book request without a user_id, or with an empty one, for
\* an event with a free seat has been answered 400.
C25_Witness ==
    /\ resp.handler = "createBooking"
    /\ resp.malformed /\ resp.error = ErrValidation
    /\ resp.status = StatusBadRequest
    /\ EventExists(1) /\ ~NoSeats(bookings, 1)

\* C23: the response of createBooking to the outcome of BookEvent: 200 on
\* success, 409 on "no available seats", 409 on "user already has pending
\* booking for this event", 500 "failed to book event" on every other error.
C23_CreateBookingMapping ==
    (resp.handler = "createBooking" /\ resp.err # "") =>
       /\ last.op = "book" /\ resp.err = last.res
       /\ resp.err = OK => resp.status = StatusOK /\ resp.error = ""
       /\ resp.err = ErrNoSeats => resp.status = StatusConflict
       /\ resp.err = ErrDuplicatePending => resp.status = StatusConflict
       /\ resp.err \notin {OK, ErrNoSeats, ErrDuplicatePending} =>
              /\ resp.status = StatusInternalServerError
              /\ resp.error = "failed to book event"

\* C23 witness: a second book request of a user with a pending booking has
\* been answered 409.
C23_Witness ==
    /\ resp.handler = "createBooking" /\ resp.fault = "none"
    /\ resp.err = ErrDuplicatePending /\ resp.status = StatusConflict
    /\ ExistingBooking(bookings, resp.ev, resp.user)

\* C24: the response of confirmBooking to the outcome of ConfirmBooking: 200
\* on success, 404 on "no pending booking found", 409 on "no available seats",
\* 500 "failed to confirm booking" on every other error.
C24_ConfirmBookingMapping ==
    (resp.handler = "confirmBooking" /\ resp.err # "") =>
       /\ last.op = "confirm" /\ resp.err = last.res
       /\ resp.err = OK => resp.status = StatusOK /\ resp.error = ""
       /\ resp.err = ErrNoPending => resp.status = StatusNotFound
       /\ resp.err = ErrNoSeats => resp.status = StatusConflict
       /\ resp.err \notin {OK, ErrNoPending, ErrNoSeats} =>
              /\ resp.status = StatusInternalServerError
              /\ resp.error = "failed to confirm booking"

\* C24 witness: a confirm request of a user without a pending booking for an
\* existing event has been answered 404.
C24_Witness ==
    /\ resp.handler = "confirmBooking" /\ resp.fault = "none"
    /\ resp.err = ErrNoPending /\ resp.status = StatusNotFound
    /\ EventExists(resp.ev)

\* C26: for every event, the ConfirmBooking calls that have returned success
\* are no more than the event's confirmed bookings, whatever sweep or other
\* confirm ran between their statements.
C26_SuccessesWithinConfirmed ==
    \A e \in EventIds :
        Cardinality({p \in Procs : /\ tx[p].pc = "confirm_done"
                                   /\ tx[p].res = OK
                                   /\ tx[p].ev = e})
            <= ConfirmedCount(bookings, e)

\* C27: the signal that stopped the sweeper also lets main pass its receive:
\* once the sweeper has returned, main has left <-stop or finds a value on
\* stop to receive, and so goes on to shut the server down and close the store.
C27_OneSignalReachesBoth ==
    rt.sweeper = "returned" => (rt.mainpc # "wait" \/ rt.stop = 1)

\* C28: BookEvent tests capacity before the duplicate: a holder with a
\* pending booking on an event whose confirmed count equals total_seats gets
\* "no available seats", not the duplicate error, and nothing is inserted.
C28_CapacityBeforeDuplicate ==
    (/\ last.op = "book"
     /\ EventExists(last.ev)
     /\ ConfirmedCount(pre, last.ev) = events[last.ev].total_seats
     /\ PendingRows(pre, last.ev, last.user) # {})
        => /\ last.res = ErrNoSeats
           /\ last.res # ErrDuplicatePending
           /\ bookings = pre

\* C28 witness: a holder whose booking is still pending has asked again on
\* an event that filled up meanwhile.
C28_Witness ==
    /\ last.op = "book" /\ last.res = ErrNoSeats
    /\ PendingRows(bookings, last.ev, last.user) # {}
    /\ ConfirmedCount(bookings, last.ev) = events[last.ev].total_seats

\* C29: ConfirmBooking looks the pending booking up before it tests capacity:
\* on a full event a holder without a pending booking gets "no pending booking
\* found", and "no available seats" goes only to a holder who has one.
C29_LookupBeforeCapacity ==
    /\ (/\ last.op = "confirm"
        /\ EventExists(last.ev)
        /\ ConfirmedCount(pre, last.ev) = events[last.ev].total_seats
        /\ PendingRows(pre, last.ev, last.user) = {})
       => last.res = ErrNoPending
    /\ (last.op = "confirm" /\ last.res = ErrNoSeats)
       => PendingRows(pre, last.ev, last.user) # {}

\* C29 witness: the holder of the confirmed booking that fills the event has
\* asked to confirm again and has no pending booking.
C29_Witness ==
    /\ last.op = "confirm" /\ last.res = ErrNoPending
    /\ EventExists(last.ev)
    /\ ConfirmedCount(pre, last.ev) = events[last.ev].total_seats
    /\ \E b \in pre : b.event_id = last.ev /\ b.user_id = last.user /\ b.confirmed

\* C30: BookEvent admits on the confirmed count and the holder's own pending
\* booking alone: with the confirmed count below total_seats, a holder without
\* a pending booking gets a new pending booking however many pending bookings
\* other holders have on the event.
C30_PendingNotCounted ==
    (/\ last.op = "book"
     /\ EventExists(last.ev)
     /\ ConfirmedCount(pre, last.ev) < events[last.ev].total_seats
     /\ PendingRows(pre, last.ev, last.user) = {})
        => /\ last.res = OK
           /\ \E b \in bookings \ pre :
                  /\ bookings = pre \cup {b}
                  /\ b.event_id = last.ev /\ b.user_id = last.user /\ ~b.confirmed

\* C30 witness: the placement has succeeded on an event whose other pending
\* bookings already were as many as its seats; pending bookings now exceed
\* total_seats.
C30_Witness ==
    /\ last.op = "book" /\ last.res = OK
    /\ Cardinality({b \in pre : b.event_id = last.ev /\ ~b.confirmed})
           >= events[last.ev].total_seats
    /\ Cardinality({b \in bookings : b.event_id = last.ev /\ ~b.confirmed})
           > events[last.ev].total_seats

ConfirmedRows(bk, e, u) ==
    {b \in bk : b.event_id = e /\ b.user_id = u /\ b.confirmed}

\* C32: the duplicate test of BookEvent looks at pending bookings only: a
\* holder with a confirmed booking and no pending one on an event with a free
\* seat gets a new pending booking, and the confirmation that directly follows
\* succeeds, leaving the holder with more than one confirmed booking there.
C32_ConfirmedHolderBooksAgain ==
    /\ (/\ last.op = "book"
        /\ EventExists(last.ev)
        /\ ConfirmedRows(pre, last.ev, last.user) # {}
        /\ PendingRows(pre, last.ev, last.user) = {}
        /\ ConfirmedCount(pre, last.ev) < events[last.ev].total_seats)
       => /\ last.res = OK
          /\ Cardinality(PendingRows(bookings, last.ev, last.user)) = 1
          /\ ConfirmedRows(bookings, last.ev, last.user)
                 = ConfirmedRows(pre, last.ev, last.user)
    /\ (/\ last.op = "confirm" /\ last.after = "book"
        /\ ConfirmedRows(pre, last.ev, last.user) # {})
       => /\ last.res = OK
          /\ Cardinality(ConfirmedRows(bookings, last.ev, last.user)) >= 2

\* C32 witness: one holder has two confirmed bookings of one event.
C32_Witness ==
    /\ last.op = "confirm" /\ last.res = OK
    /\ Cardinality(ConfirmedRows(bookings, last.ev, last.user)) = 2
    /\ Cardinality(ConfirmedRows(pre, last.ev, last.user)) = 1

\* C33: in every result of GetEventWithBookings the event's booked_seats is
\* the number of confirmed bookings in the returned list, also when another
\* call commits between the read of the count and the read of the list.
C33_CountMatchesList ==
    (resp.handler = "getEventInfo" /\ resp.status = StatusOK)
        => resp.event.booked_seats
               = Cardinality({b \in resp.bookings : b.confirmed})

\* Booking i is in the table and pending.
PendingId(i) == \E b \in bookings : b.id = i /\ ~b.confirmed

\* Booking i is pending and the clock gets past its deadline.
PendingIdDue(i) ==
    \E b \in bookings :
        /\ b.id = i /\ ~b.confirmed
        /\ b.created_at + DeadlineOf(b) < MaxTime

\* C34: with the ticker firing every minute and the sweeper scheduled, every
\* pending booking whose deadline the clock gets past is in the end confirmed
\* or deleted: none stays pending forever.
C34_PendingEventuallySwept ==
    \A i \in 1..MaxBookingId : PendingIdDue(i) ~> ~PendingId(i)

\* C34 witness: a sweep of the sweeper goroutine has deleted a pending
\* booking that was past its deadline.
C34_Witness ==
    /\ rt.swept = "ok" /\ last.op = "sweep"
    /\ \E b \in pre : ~b.confirmed /\ Overdue(b) /\ b \notin bookings

\* A step of BookEvent as one atomic call.
BookStep == last'.op = "book" /\ now' = now

\* C35: a BookEvent that follows a sweep which deleted the holder's pending
\* booking of the event succeeds when the event's confirmed count is below
\* total_seats, and the new booking is stamped with the time of the call.
C35_RebookAfterSweep ==
    [][(/\ BookStep
        /\ last'.after = "sweep"
        /\ ConfirmedCount(bookings, last'.ev) < events[last'.ev].total_seats)
          => /\ last'.res = OK
             /\ \E c \in bookings' \ bookings :
                    /\ c.event_id = last'.ev /\ c.user_id = last'.user
                    /\ ~c.confirmed
                    /\ c.created_at = now
                    /\ ~Expired(c, now)]_vars

\* C35 witness: the holder has booked again after the sweep, two minutes or
\* more after the clock started.
C35_Witness ==
    /\ last.op = "book" /\ last.after = "sweep" /\ last.res = OK
    /\ \E c \in bookings \ pre : c.created_at = now /\ now >= 2

\* The i-th call of the trace is op for event e and holder u.
TraceCallIs(i, op, e, u) ==
    /\ trace[i].call.op = op
    /\ trace[i].call.ev = e
    /\ trace[i].call.user = u

\* C36: once ConfirmBooking has succeeded for an event and holder, a later
\* ConfirmBooking for the pair, no BookEvent for the pair between the two,
\* fails with "no pending booking found" and leaves the table as it was.
C36_SecondConfirmFails ==
    \A i \in 1..Len(trace), j \in 1..Len(trace), e \in EventIds, u \in Users :
        (/\ i < j
         /\ TraceCallIs(i, "confirm", e, u) /\ trace[i].call.res = OK
         /\ TraceCallIs(j, "confirm", e, u)
         /\ \A k \in (i + 1)..(j - 1) : ~TraceCallIs(k, "book", e, u))
        => /\ trace[j].call.res = ErrNoPending
           /\ trace[j].bk = trace[j - 1].bk

\* C36 witness: booked, confirmed, and the second confirmation refused.
C36_Witness ==
    /\ Len(trace) = 3
    /\ TraceCallIs(1, "book", 1, "A")
    /\ TraceCallIs(2, "confirm", 1, "A") /\ trace[2].call.res = OK
    /\ TraceCallIs(3, "confirm", 1, "A") /\ trace[3].call.res = ErrNoPending
    /\ ConfirmedCount(trace[3].bk, 1) = 1

\* C37: one sweep deletes exactly the pending bookings whose age is strictly
\* greater than their event's deadline_minutes and keeps every other booking
\* as it is, a pending one of age equal to the deadline included; the table
\* it leaves has no such booking, so a second sweep at the same instant
\* deletes nothing.
C37_SweepDeletesExactlyOverdue ==
    [][SweepStep =>
          /\ bookings' = bookings \ {b \in bookings : Overdue(b)}
          /\ \A b \in bookings :
                 (~b.confirmed /\ now - b.created_at <= DeadlineOf(b))
                     => b \in bookings'
          /\ \A b \in bookings' :
                 ~(~b.confirmed /\ now' - b.created_at > DeadlineOf(b))
          /\ {b \in bookings : Overdue(b)} = {} => bookings' = bookings]_vars

\* C37 witness: a sweep has deleted a booking past its deadline and kept a
\* pending booking whose age is exactly its deadline.
C37_Witness ==
    /\ last.op = "sweep"
    /\ \E b \in pre \ bookings : now - b.created_at > DeadlineOf(b)
    /\ \E c \in pre \cap bookings :
           ~c.confirmed /\ now - c.created_at = DeadlineOf(c)

\* The call of goroutine p has returned.
TxDone(p) == tx[p].pc \in {"book_done", "confirm_done"}

\* The INSERT of goroutine p needs a bookings.id beyond those the model
\* hands out.
OutOfIds(p) ==
    /\ tx[p].pc = "book_insert"
    /\ nextId > MaxBookingId
    /\ ~UniqueViolation(bookings, tx[p].ev, tx[p].user)

\* The sweep's DELETE waits for the row lock of a ConfirmBooking.
SweepWaits == \E b \in bookings : Expired(b, now) /\ RowLocked(0, b.id)

\* C38: every BookEvent and ConfirmBooking that has begun returns, with a
\* commit or an error, whatever the other goroutine and the sweep do, and a
\* sweep that waits for a row lock gets it: no call waits forever.
C38_EveryCallReturns ==
    /\ \A p \in Procs : (tx[p].pc # "idle") ~> (TxDone(p) \/ OutOfIds(p))
    /\ SweepWaits ~> ~SweepWaits

\* C38 witness: a BookEvent that waited for the other transaction's commit
\* has returned, the other having committed.
C38_Witness ==
    \E p \in Procs, q \in Procs :
        /\ p # q
        /\ tx[p].pc = "book_done" /\ tx[p].res = ErrCreateBooking
        /\ tx[q].pc = "idle"
        /\ Cardinality(PendingRows(bookings, tx[p].ev, tx[p].user)) = 1

\* C39: a BookEvent that succeeds adds exactly one booking, for the event and
\* holder of the call, with confirmed = false and created_at the time of the
\* call, under an id no booking had, and changes no other booking and no
\* event.
C39_BookAddsOneRow ==
    [][(BookStep /\ last'.res = OK) =>
          /\ events' = events
          /\ \E c \in bookings' \ bookings :
                 /\ bookings' = bookings \cup {c}
                 /\ c.event_id = last'.ev /\ c.user_id = last'.user
                 /\ c.confirmed = FALSE
                 /\ c.created_at = now
                 /\ \A b \in bookings : b.id # c.id]_vars

\* C39 witness: a booking has been added in a later minute to a table that
\* already held one.
C39_Witness ==
    /\ last.op = "book" /\ last.res = OK
    /\ pre # {} /\ now >= 1
    /\ \E c \in bookings \ pre :
           /\ bookings = pre \cup {c}
           /\ c.created_at = now /\ ~c.confirmed

====
